---- MODULE Spec2Model ----
(***************************************************************************)
(* A model of the WAD archive reader (wad/src/archive.rs) and of the level *)
(* loader and topology index built on it (wad/src/level.rs).               *)
(*                                                                         *)
(* Spec       the archive: open_wad, the two lookups and the four lump     *)
(*            decoders, over small containers.                             *)
(***************************************************************************)
EXTENDS Integers, Sequences, FiniteSets, TLC

VARIABLES wad, archive, cursor, op, level, tbs, iter

vars == <<wad, archive, cursor, op, level, tbs, iter>>

(***************************************************************************)
(* Bounds of the model.                                                    *)
(***************************************************************************)
MaxLumps == 2
MaxSize == 2
MaxElem == 2
FileLen == 2

(***************************************************************************)
(* Helpers on sequences.                                                   *)
(***************************************************************************)
SeqsUpTo(S, n) == UNION {[1..k -> S] : k \in 0..n}

Range(s) == {s[i] : i \in 1..Len(s)}

(***************************************************************************)
(* The container on disk.  header_ok: the 12-byte header can be read.      *)
(* dir: the directory entries that can be read at info_table_offset, in    *)
(* file order (fewer than num_lumps when the file is truncated).  Lump     *)
(* data is addressed by byte offset into a file of len bytes.              *)
(***************************************************************************)
IWAD_HEADER == "IWAD"

THINGS == "THINGS"

Magics == {IWAD_HEADER, "PWAD"}

Names == {THINGS, "PLAYPAL"}

Offsets == {0, 1}

WadLump == [name : Names, file_pos : Offsets, size : 0..MaxSize]

Containers ==
    {[header_ok |-> FALSE, identifier |-> IWAD_HEADER, num_lumps |-> 0,
      dir |-> <<>>, len |-> FileLen]}
    \cup
    {[header_ok |-> TRUE, identifier |-> m, num_lumps |-> n, dir |-> <<>>,
      len |-> FileLen] :
        m \in Magics \ {IWAD_HEADER}, n \in 0..MaxLumps}
    \cup
    UNION {{[header_ok |-> TRUE, identifier |-> IWAD_HEADER, num_lumps |-> n,
             dir |-> d, len |-> FileLen] :
               n \in {Len(d), Len(d) + 1} \cap (0..MaxLumps)} :
           d \in SeqsUpTo(WadLump, MaxLumps)}

NoWad ==
    [header_ok |-> FALSE, identifier |-> IWAD_HEADER, num_lumps |-> 0,
     dir |-> <<>>, len |-> 0]

(***************************************************************************)
(* Results.  Every operation ends in a value ("ok"), an anyhow error       *)
(* ("err", with the message's template and its arguments) or a panic       *)
(* (the process aborts: no value and no error is returned).                *)
(***************************************************************************)
Ok(v) == [kind |-> "ok", val |-> v]

Err(m, a) == [kind |-> "err", msg |-> m, args |-> a]

Panic(m) == [kind |-> "panic", msg |-> m]

NoArchive == [lumps |-> <<>>, index_map |-> <<>>, levels |-> <<>>]

(***************************************************************************)
(* IndexMap::insert: the value of an existing key is overwritten in        *)
(* place, a new key is appended.  The map is a sequence of <<key, value>>. *)
(***************************************************************************)
MapHas(m, k) == \E i \in 1..Len(m) : m[i][1] = k

MapGet(m, k) == m[CHOOSE i \in 1..Len(m) : m[i][1] = k][2]

MapInsert_KeepFirst(m, k, v) ==
    IF MapHas(m, k) THEN m ELSE Append(m, <<k, v>>)

MapInsert(m, k, v) ==
    IF MapHas(m, k)
    THEN [i \in 1..Len(m) |-> IF m[i][1] = k THEN <<k, v>> ELSE m[i]]
    ELSE Append(m, <<k, v>>)

(***************************************************************************)
(* Archive::open_wad, the loop over the directory (lines 87-104).  i_lump  *)
(* is 0-based as in the source; a holds lumps, index_map and levels.       *)
(***************************************************************************)
LevelStart(i_lump) == i_lump - 1

RECURSIVE ReadDirectory(_, _, _)
ReadDirectory(w, i_lump, a) ==
    IF i_lump >= w.num_lumps THEN Ok(a)
    ELSE IF i_lump >= Len(w.dir) THEN Err("Invalid lump info", <<i_lump>>)
    ELSE LET fileinfo == w.dir[i_lump + 1]
             a1 == [a EXCEPT
                      !.index_map = MapInsert(@, fileinfo.name, Len(a.lumps)),
                      !.lumps = Append(@, [name |-> fileinfo.name,
                                           offset |-> fileinfo.file_pos,
                                           size |-> fileinfo.size])]
         IN IF fileinfo.name = THINGS
            THEN IF ~(i_lump > 0)
                 THEN Panic("assertion failed: i_lump > 0")
                 ELSE ReadDirectory(w, i_lump + 1,
                        [a1 EXCEPT !.levels = Append(@, LevelStart(i_lump))])
            ELSE ReadDirectory(w, i_lump + 1, a1)

HeaderMatches(identifier) == identifier = IWAD_HEADER

OpenWad(w) ==
    IF ~w.header_ok THEN Err("Could not read WAD header", <<>>)
    ELSE IF ~HeaderMatches(w.identifier)
    THEN Err("Invalid header identifier", <<w.identifier>>)
    ELSE ReadDirectory(w, 0, NoArchive)

(***************************************************************************)
(* Archive::lump_by_index and Archive::named_lump.  A LumpReader is the    *)
(* pair of the index and the directory entry it refers to.                 *)
(***************************************************************************)
LumpByIndex(a, index) ==
    IF index < Len(a.lumps)
    THEN Ok([index |-> index, info |-> a.lumps[index + 1]])
    ELSE Err("Missing required lump", <<index>>)

NamedLump(a, name) ==
    IF MapHas(a.index_map, name)
    THEN LET r == LumpByIndex(a, MapGet(a.index_map, name))
         IN IF r.kind = "ok" THEN Ok(<<"Some", r.val>>) ELSE r
    ELSE Ok(<<"None">>)

(***************************************************************************)
(* The bounded sub-reader of LumpReader::read: Read::take over the shared  *)
(* file, positioned at pos with limit bytes left.  read_exact of k bytes   *)
(* succeeds when the limit and the file both still hold k bytes;           *)
(* otherwise it consumes what is there and fails with UnexpectedEof.       *)
(***************************************************************************)
Min(a, b) == IF a <= b THEN a ELSE b

Max(a, b) == IF a >= b THEN a ELSE b

Available(f, len) == Min(f.limit, Max(len - f.pos, 0))

ReadExact(f, k, len) ==
    IF Available(f, len) >= k
    THEN [ok |-> TRUE, pos |-> f.pos + k, limit |-> f.limit - k]
    ELSE [ok |-> FALSE, pos |-> f.pos + Available(f, len),
          limit |-> f.limit - Available(f, len)]

(***************************************************************************)
(* LumpReader::read: seek the shared cursor to the entry's offset and hand *)
(* the closure a reader limited to the entry's size.                       *)
(***************************************************************************)
\* A read that does not seek: it takes from wherever the shared cursor is.
SeekTake_NoSeek(info) == [pos |-> cursor, limit |-> info.size]

SeekTake(info) == [pos |-> info.offset, limit |-> info.size]

(***************************************************************************)
(* A decoder's outcome: its result and where it left the shared cursor.    *)
(* A decoded record is the half-open range of file offsets it was read     *)
(* from: bincode reads size_of::<T>() bytes per record of the fixed-width  *)
(* record types.                                                           *)
(***************************************************************************)
Out(res, pos) == [res |-> res, cursor |-> pos]

SizeMismatch(index, total, element) ==
    Err("Invalid lump size",
        <<index, total, element, total \div element, total % element>>)

DivideByZero == Panic("attempt to divide by zero")

RECURSIVE ReadElements(_, _, _, _, _, _)
ReadElements(index, f, n, k, len, acc) ==
    IF n = 0 THEN Out(Ok(acc), f.pos)
    ELSE LET g == ReadExact(f, k, len)
         IN IF g.ok
            THEN ReadElements(index, [pos |-> g.pos, limit |-> g.limit],
                              n - 1, k, len, Append(acc, <<f.pos, g.pos>>))
            ELSE Out(Err("Invalid element", <<index, Len(acc)>>), g.pos)

(***************************************************************************)
(* LumpReader::decode_vec::<T>, element_size = size_of::<T>().             *)
(***************************************************************************)
DecodeVecCheck_NoVirtual(size, element_size) ==
    size % element_size # 0

DecodeVecCheck(size, element_size) ==
    size = 0 \/ size % element_size # 0

DecodeVec(r, element_size, len) ==
    LET f == SeekTake(r.info)
    IN IF element_size = 0 THEN Out(DivideByZero, f.pos)
       ELSE IF DecodeVecCheck(r.info.size, element_size)
       THEN Out(SizeMismatch(r.index, r.info.size, element_size), f.pos)
       ELSE ReadElements(r.index, f, r.info.size \div element_size,
                         element_size, len, <<>>)

(***************************************************************************)
(* LumpReader::decode_one::<T>.  The arguments of bail! are evaluated      *)
(* when the size check fails, so a zero element size divides by zero.      *)
(***************************************************************************)
DecodeOne(r, element_size, len) ==
    LET f == SeekTake(r.info)
    IN IF element_size = 0 \/ r.info.size # element_size
       THEN IF element_size = 0 THEN Out(DivideByZero, f.pos)
            ELSE Out(SizeMismatch(r.index, r.info.size, element_size), f.pos)
       ELSE LET o == ReadElements(r.index, f, 1, element_size, len, <<>>)
            IN IF o.res.kind = "ok" THEN Out(Ok(o.res.val[1]), o.cursor)
               ELSE o

(***************************************************************************)
(* LumpReader::read_blobs::<B>, blob_size = B::default().as_mut().len().   *)
(***************************************************************************)
ReadBlobs(r, blob_size, len) ==
    LET f == SeekTake(r.info)
    IN IF ~(blob_size > 0)
       THEN Out(Panic("assertion failed: blob_size > 0"), f.pos)
       ELSE IF r.info.size = 0 \/ r.info.size % blob_size # 0
       THEN Out(SizeMismatch(r.index, r.info.size, blob_size), f.pos)
       ELSE ReadElements(r.index, f, r.info.size \div blob_size, blob_size,
                         len, <<>>)

(***************************************************************************)
(* LumpReader::read_bytes: the whole entry in one read_exact.              *)
(***************************************************************************)
ReadBytes(r, len) ==
    LET f == SeekTake(r.info)
        g == ReadExact(f, r.info.size, len)
    IN IF g.ok THEN Out(Ok(<<f.pos, g.pos>>), g.pos)
       ELSE Out(Err("Invalid element", <<r.index, 0>>), g.pos)

(***************************************************************************)
(* A Level: the eight record sequences of level.rs lines 26-36, with the   *)
(* fields of each record that the code of level.rs reads.                  *)
(***************************************************************************)
Record == [id |-> 0]

LevelOf(things, linedefs, sidedefs, vertices, sectors) ==
    [things |-> things, linedefs |-> linedefs, sidedefs |-> sidedefs,
     vertices |-> vertices, segs |-> <<Record>>, subsectors |-> <<Record>>,
     nodes |-> <<Record>>, sectors |-> sectors]

NoLevel == LevelOf(<<>>, <<>>, <<>>, <<>>, <<>>)

Point(x, y) == [x |-> x, y |-> y]

Linedef(sv, ev, left, right) ==
    [start_vertex |-> sv, end_vertex |-> ev, left_side |-> left,
     right_side |-> right]

Sector(tag, floor, ceiling) ==
    [tag |-> tag, floor_height |-> floor, ceiling_height |-> ceiling]

(***************************************************************************)
(* The level (wad/src/level.rs).  Ids are 0-based indices as in the        *)
(* source; At reads a sequence at such an id.                              *)
(***************************************************************************)
At(s, i) == s[i + 1]

InRange(s, i) == 0 <= i /\ i < Len(s)

EmptyMap == [k \in {} |-> <<>>]

IndexOutOfBounds == "index out of bounds"

(***************************************************************************)
(* compute_things_by_sector, lines 241-249: the filter that collects the   *)
(* linedefs of a sector.  sidedefs[..] is an unchecked index: a side id    *)
(* that is non-negative and not an index of sidedefs panics.  || is lazy:  *)
(* the right side is examined only when the left side does not match.      *)
(***************************************************************************)
RightRefers(lv, l, sector_index) ==
    IF l.right_side >= 0
    THEN IF InRange(lv.sidedefs, l.right_side)
         THEN IF At(lv.sidedefs, l.right_side).sector = sector_index
              THEN "yes" ELSE "no"
         ELSE "panic"
    ELSE "no"

LinedefRefers(lv, l, sector_index) ==
    IF l.left_side >= 0
    THEN IF InRange(lv.sidedefs, l.left_side)
         THEN IF At(lv.sidedefs, l.left_side).sector = sector_index
              THEN "yes" ELSE RightRefers(lv, l, sector_index)
         ELSE "panic"
    ELSE RightRefers(lv, l, sector_index)

SectorLinedefs(lv, sector_index) ==
    SelectSeq(lv.linedefs, LAMBDA l : LinedefRefers(lv, l, sector_index) = "yes")

FilterPanics(lv, sector_index) ==
    \E i \in 1..Len(lv.linedefs) :
        LinedefRefers(lv, lv.linedefs[i], sector_index) = "panic"

(***************************************************************************)
(* Lines 254-262: the MultiMap from each vertex to the vertices it is      *)
(* joined to, both directions of every collected linedef, in linedef order.*)
(***************************************************************************)
MultiMapInsert(m, k, v) ==
    IF k \in DOMAIN m THEN [m EXCEPT ![k] = Append(@, v)]
    ELSE [j \in DOMAIN m \cup {k} |-> IF j = k THEN <<v>> ELSE m[j]]

LinePairs(l) ==
    <<<<l.start_vertex, l.end_vertex>>, <<l.end_vertex, l.start_vertex>>>>

RECURSIVE CollectLines(_, _)
CollectLines(ls, m) ==
    IF ls = <<>> THEN m
    ELSE LET p == LinePairs(Head(ls))
             m1 == MultiMapInsert(m, p[1][1], p[1][2])
         IN CollectLines(Tail(ls), MultiMapInsert(m1, p[2][1], p[2][2]))

\* A remove that leaves the key in the map.
MultiMapRemove_Keep(m, k) == m

MultiMapRemove(m, k) == [j \in DOMAIN m \ {k} |-> m[j]]

Coord(lv, v) == [x |-> At(lv.vertices, v).x, y |-> At(lv.vertices, v).y]

(***************************************************************************)
(* Lines 295-310: Polygon::new closes the ring; Polygon::contains is true  *)
(* of the points of the interior (winding number not zero) and false of    *)
(* the points on the boundary.                                             *)
(***************************************************************************)
Orient2d(a, b, p) == (b.x - a.x) * (p.y - a.y) - (p.x - a.x) * (b.y - a.y)

Between(v, a, b) == (a <= v /\ v <= b) \/ (b <= v /\ v <= a)

OnLine(a, b, p) ==
    Orient2d(a, b, p) = 0 /\ Between(p.x, a.x, b.x) /\ Between(p.y, a.y, b.y)

CloseRing(cs) ==
    IF Len(cs) > 0 /\ cs[1] # cs[Len(cs)] THEN Append(cs, cs[1]) ELSE cs

Upward(a, b, p) == a.y <= p.y /\ b.y > p.y /\ Orient2d(a, b, p) > 0

Downward(a, b, p) == a.y > p.y /\ b.y <= p.y /\ Orient2d(a, b, p) < 0

WindingNumber(ring, p) ==
    Cardinality({i \in 1..(Len(ring) - 1) : Upward(ring[i], ring[i + 1], p)})
    - Cardinality({i \in 1..(Len(ring) - 1) : Downward(ring[i], ring[i + 1], p)})

OnBoundary(ring, p) ==
    \/ Len(ring) = 1 /\ ring[1] = p
    \/ \E i \in 1..(Len(ring) - 1) : OnLine(ring[i], ring[i + 1], p)

PolygonContains_Covers(cs, p) ==
    LET ring == CloseRing(cs)
    IN OnBoundary(ring, p) \/ WindingNumber(ring, p) # 0

PolygonContains(cs, p) ==
    LET ring == CloseRing(cs)
    IN ~OnBoundary(ring, p) /\ WindingNumber(ring, p) # 0

ThingIndices(lv, cs) ==
    SelectSeq([i \in 1..Len(lv.things) |-> i - 1],
              LAMBDA i : PolygonContains(cs, [x |-> At(lv.things, i).x,
                                              y |-> At(lv.things, i).y]))

(***************************************************************************)
(* compute_things_by_sector as a machine.  t is the state of the call:     *)
(* pc "sector" is the head of the loop over the sectors, "walk" the head   *)
(* of the while loop, "polygon" the code after the while loop.  Each step  *)
(* gives the set of its successors: the vertex the walk starts from is     *)
(* whichever key the HashMap behind the MultiMap iterates first.           *)
(***************************************************************************)
ThingsStart ==
    [pc |-> "sector", sector_index |-> 0, lines |-> EmptyMap,
     current_vertex |-> 0, visited |-> {}, sector_vertices |-> <<>>,
     result |-> EmptyMap, msg |-> ""]

ThingsPanic(t, m) == [t EXCEPT !.pc = "panic", !.msg = m]

StartWalk(lv, t, lines, v) ==
    IF ~InRange(lv.vertices, v) THEN ThingsPanic(t, IndexOutOfBounds)
    ELSE [t EXCEPT !.pc = "walk", !.lines = lines, !.current_vertex = v,
                   !.visited = {v}, !.sector_vertices = <<Coord(lv, v)>>]

SectorStep(lv, t) ==
    IF t.sector_index >= Len(lv.sectors) THEN {[t EXCEPT !.pc = "done"]}
    ELSE IF At(lv.sectors, t.sector_index).tag = 0
    THEN {[t EXCEPT !.sector_index = @ + 1]}
    ELSE IF FilterPanics(lv, t.sector_index)
    THEN {ThingsPanic(t, IndexOutOfBounds)}
    ELSE LET lines == CollectLines(SectorLinedefs(lv, t.sector_index), EmptyMap)
         IN IF DOMAIN lines = {}
            THEN {ThingsPanic(t, "No linedefs for sector")}
            ELSE {StartWalk(lv, t, lines, v) : v \in DOMAIN lines}

\* A filter that lets the visited vertices through.
Unvisited_All(vs, visited) == vs

Unvisited(vs, visited) == SelectSeq(vs, LAMBDA v : v \notin visited)

NextVertex(t) ==
    IF t.current_vertex \in DOMAIN t.lines
    THEN Unvisited(t.lines[t.current_vertex], t.visited)
    ELSE <<>>

WalkStep(lv, t) ==
    IF DOMAIN t.lines = {} THEN [t EXCEPT !.pc = "polygon"]
    ELSE LET found == NextVertex(t)
             rest == MultiMapRemove(t.lines, t.current_vertex)
         IN IF found = <<>>
            THEN [t EXCEPT !.pc = "polygon", !.lines = rest]
            ELSE IF ~InRange(lv.vertices, Head(found))
            THEN ThingsPanic([t EXCEPT !.lines = rest], IndexOutOfBounds)
            ELSE [t EXCEPT !.lines = rest,
                           !.sector_vertices = Append(@, Coord(lv, Head(found))),
                           !.current_vertex = Head(found),
                           !.visited = @ \cup {Head(found)}]

MapPut(m, k, v) == [j \in DOMAIN m \cup {k} |-> IF j = k THEN v ELSE m[j]]

PolygonStep(lv, t) ==
    [t EXCEPT !.pc = "sector",
              !.result = MapPut(@, t.sector_index,
                                ThingIndices(lv, t.sector_vertices)),
              !.sector_index = @ + 1,
              !.lines = EmptyMap, !.current_vertex = 0, !.visited = {},
              !.sector_vertices = <<>>]

ThingsSteps(lv, t) ==
    CASE t.pc = "sector" -> SectorStep(lv, t)
      [] t.pc = "walk" -> {WalkStep(lv, t)}
      [] t.pc = "polygon" -> {PolygonStep(lv, t)}
      [] OTHER -> {}

\* Every way the whole call can end: with pc "done" and the result, or with
\* pc "panic".
RECURSIVE ThingsOutcomes(_, _)
ThingsOutcomes(lv, t) ==
    IF t.pc \in {"done", "panic"} THEN {t}
    ELSE UNION {ThingsOutcomes(lv, u) : u \in ThingsSteps(lv, t)}

(***************************************************************************)
(* Level::left_sidedef / right_sidedef: -1 is "none"; any other id is      *)
(* looked up with get, which is None for an id that is not an index.       *)
(* None is <<>>, Some(v) is <<v>>.                                         *)
(***************************************************************************)
None == <<>>

Some(v) == <<v>>

Sidedef(lv, side) ==
    IF side = -1 THEN None
    ELSE IF InRange(lv.sidedefs, side) THEN Some(At(lv.sidedefs, side))
    ELSE None

SectorGet(lv, id) == IF InRange(lv.sectors, id) THEN Some(id) ELSE None

(***************************************************************************)
(* AdjacentSectorsIter::next, one linedef of the scan: "continue" (the     *)
(* linedef yields nothing), or the sector it yields, by its id.            *)
(***************************************************************************)
Adjacent_LeftOnly(lv, left, right, sector_id) ==
    IF left = sector_id THEN Some(SectorGet(lv, right)) ELSE None

Adjacent(lv, left, right, sector_id) ==
    IF left = sector_id THEN Some(SectorGet(lv, right))
    ELSE IF right = sector_id THEN Some(SectorGet(lv, left))
    ELSE None

LineYields(lv, line, sector_id) ==
    LET l == Sidedef(lv, line.left_side)
        r == Sidedef(lv, line.right_side)
    IN IF l = None \/ r = None THEN None
       ELSE LET adjacent == Adjacent(lv, l[1].sector, r[1].sector, sector_id)
            IN IF adjacent = None THEN None ELSE adjacent[1]

\* A next() that ends the scan at the first linedef that yields nothing.
IterNext_StopAtSkip(lv, sector_id, pos) ==
    IF pos >= Len(lv.linedefs) THEN [pos |-> pos, item |-> None]
    ELSE LET y == LineYields(lv, At(lv.linedefs, pos), sector_id)
         IN IF y # None THEN [pos |-> pos + 1, item |-> y]
            ELSE [pos |-> Len(lv.linedefs), item |-> None]

\* The whole call: scan on from linedef pos (0-based) to the first linedef
\* that yields, or to the end.
RECURSIVE IterNext(_, _, _)
IterNext(lv, sector_id, pos) ==
    IF pos >= Len(lv.linedefs) THEN [pos |-> pos, item |-> None]
    ELSE LET y == LineYields(lv, At(lv.linedefs, pos), sector_id)
         IN IF y # None THEN [pos |-> pos + 1, item |-> y]
            ELSE IterNext(lv, sector_id, pos + 1)

(***************************************************************************)
(* Level::neighbour_heights: the closure of the fold, for one yielded      *)
(* sector.                                                                 *)
(***************************************************************************)
NextFloor_KeepFirst(heights, floor, of_floor) ==
    IF floor <= of_floor THEN heights.next_floor
    ELSE IF heights.next_floor # None THEN heights.next_floor
    ELSE Some(floor)

NextFloor(heights, floor, of_floor) ==
    IF floor <= of_floor THEN heights.next_floor
    ELSE IF heights.next_floor # None
    THEN Some(Min(heights.next_floor[1], floor))
    ELSE Some(floor)

FoldHeights(acc, sector, of_floor) ==
    LET floor == sector.floor_height
        ceiling == sector.ceiling_height
    IN IF acc # None
       THEN LET heights == acc[1]
            IN Some([lowest_floor |-> Min(heights.lowest_floor, floor),
                     highest_floor |-> Max(heights.highest_floor, floor),
                     lowest_ceiling |-> Min(heights.lowest_ceiling, ceiling),
                     highest_ceiling |-> Max(heights.highest_ceiling, ceiling),
                     next_floor |-> NextFloor(heights, floor, of_floor)])
       ELSE Some([lowest_floor |-> floor, highest_floor |-> floor,
                  lowest_ceiling |-> ceiling, highest_ceiling |-> ceiling,
                  next_floor |-> IF floor > of_floor THEN Some(floor)
                                 ELSE None])

\* The sectors the iterator of sector_id yields from linedef pos on, in order.
RECURSIVE AdjacentSectors(_, _, _)
AdjacentSectors(lv, sector_id, pos) ==
    LET n == IterNext(lv, sector_id, pos)
    IN IF n.item = None THEN <<>>
       ELSE <<n.item[1]>> \o AdjacentSectors(lv, sector_id, n.pos)

(***************************************************************************)
(* Level::from_archive (level.rs lines 17-24 and 39-89).                   *)
(***************************************************************************)
THINGS_OFFSET == 1
LINEDEFS_OFFSET == 2
SIDEDEFS_OFFSET == 3
VERTICES_OFFSET == 4
SEGS_OFFSET == 5
SSECTORS_OFFSET == 6
NODES_OFFSET == 7
SECTORS_OFFSET == 8

Lump(field, offset) == [field |-> field, offset |-> offset]

\* The eight lumps of a level as the directory holds them, by offset from
\* the level's start index.
DirectoryOrder ==
    <<Lump("things", THINGS_OFFSET), Lump("linedefs", LINEDEFS_OFFSET),
      Lump("sidedefs", SIDEDEFS_OFFSET), Lump("vertices", VERTICES_OFFSET),
      Lump("segs", SEGS_OFFSET), Lump("subsectors", SSECTORS_OFFSET),
      Lump("nodes", NODES_OFFSET), Lump("sectors", SECTORS_OFFSET)>>

\* A from_archive that reads the lumps as the directory holds them.
LoadOrder_AsDirectory == DirectoryOrder

\* The eight reads, in the order of the statements of from_archive.
LoadOrder ==
    <<Lump("things", THINGS_OFFSET), Lump("linedefs", LINEDEFS_OFFSET),
      Lump("vertices", VERTICES_OFFSET), Lump("segs", SEGS_OFFSET),
      Lump("subsectors", SSECTORS_OFFSET), Lump("nodes", NODES_OFFSET),
      Lump("sidedefs", SIDEDEFS_OFFSET), Lump("sectors", SECTORS_OFFSET)>>

\* size_of::<T>() of the record type of each field of Level: the record
\* layouts of the container format.
RecordSize(field) ==
    CASE field = "things" -> 10
      [] field = "linedefs" -> 14
      [] field = "sidedefs" -> 30
      [] field = "vertices" -> 4
      [] field = "segs" -> 12
      [] field = "subsectors" -> 4
      [] field = "nodes" -> 28
      [] field = "sectors" -> 26

(***************************************************************************)
(* The bytes of a level in the file: the records of the eight sequences,   *)
(* one field after the other in directory order, from offset 0.            *)
(***************************************************************************)
FieldSize(lv, field) == Len(lv[field]) * RecordSize(field)

RECURSIVE FieldsSize(_, _, _)
FieldsSize(lv, order, n) ==
    IF n = 0 THEN 0
    ELSE FieldsSize(lv, order, n - 1) + FieldSize(lv, order[n].field)

FieldOffset(lv, offset) == FieldsSize(lv, DirectoryOrder, offset - 1)

Garbage == [id |-> -1]

\* bincode::deserialize_from on the bytes of one decoded record: the record
\* of the field that is encoded at exactly these bytes.
Deserialize(lv, l, range) ==
    LET rel == range[1] - FieldOffset(lv, l.offset)
    IN IF /\ range[2] - range[1] = RecordSize(l.field)
          /\ rel >= 0
          /\ rel % RecordSize(l.field) = 0
          /\ rel \div RecordSize(l.field) < Len(lv[l.field])
       THEN lv[l.field][rel \div RecordSize(l.field) + 1]
       ELSE Garbage

(***************************************************************************)
(* Archive::level_lump: self.levels[level_index] is an unchecked index.    *)
(***************************************************************************)
LevelLump(a, level_index) ==
    IF level_index < Len(a.levels)
    THEN LumpByIndex(a, At(a.levels, level_index))
    ELSE Panic(IndexOutOfBounds)

(***************************************************************************)
(* The reads of from_archive from the n-th of LoadOrder on.  st carries    *)
(* the fields decoded so far, the lumps read so far, and the cursor.       *)
(***************************************************************************)
RECURSIVE ReadLumps(_, _, _, _, _, _)
ReadLumps(a, lv, len, start_index, n, st) ==
    IF n > Len(LoadOrder) THEN [st EXCEPT !.res = Ok(0)]
    ELSE LET l == LoadOrder[n]
             r == LumpByIndex(a, start_index + l.offset)
         IN IF r.kind # "ok" THEN [st EXCEPT !.res = r]
            ELSE LET o == DecodeVec(r.val, RecordSize(l.field), len)
                     s1 == [st EXCEPT !.reads = Append(@, r.val.index),
                                      !.cursor = o.cursor]
                 IN IF o.res.kind # "ok" THEN [s1 EXCEPT !.res = o.res]
                    ELSE ReadLumps(a, lv, len, start_index, n + 1,
                           [s1 EXCEPT !.fields[l.field] =
                              [i \in 1..Len(o.res.val) |->
                                  Deserialize(lv, l, o.res.val[i])]])

\* Every way from_archive can end: the result, the lumps it read in order,
\* and where it left the cursor.  lv are the records the file encodes.
FromArchive(a, lv, len, level_index, cursor0) ==
    LET lump == LevelLump(a, level_index)
        st0 == [res |-> Ok(0), reads |-> <<>>, cursor |-> cursor0,
                fields |-> NoLevel]
    IN IF lump.kind # "ok" THEN {[st0 EXCEPT !.res = lump]}
       ELSE LET st == ReadLumps(a, lv, len, lump.val.index, 1, st0)
            IN IF st.res.kind # "ok" THEN {st}
               ELSE {[st EXCEPT !.res =
                        IF t.pc = "panic" THEN Panic(t.msg)
                        ELSE Ok([level |-> st.fields,
                                 things_by_sector |-> t.result])] :
                     t \in ThingsOutcomes(st.fields, ThingsStart)}

(***************************************************************************)
(* Bounds of the levels.                                                   *)
(***************************************************************************)
MaxCoord == 3
MaxThings == 2
MaxSectors == 3
MaxAdjLines == 2
MaxHeight == 2

(***************************************************************************)
(* Levels for the sector polygons.  The vertices are fixed; a level takes  *)
(* the edges of one shape (each <<start_vertex, end_vertex>>, of either    *)
(* direction) as its linedefs, in any order.  Linedef 1 has    *)
(* its sides from FirstSides and the others theirs from RestSides, as      *)
(* <<left_side, right_side>>; there are two sidedefs, of sectors 0 and 1,  *)
(* so that side id 2 dangles.  Vertex id 7 dangles.                        *)
(***************************************************************************)
VertexPool ==
    <<Point(0, 0), Point(2, 0), Point(2, 2), Point(0, 2),
      Point(0, 3), Point(1, 2), Point(3, 1)>>

Square == <<<<0, 1>>, <<2, 1>>, <<2, 3>>, <<0, 3>>>>

Triangle == <<<<0, 1>>, <<1, 3>>, <<3, 0>>>>

Dart == <<<<0, 4>>, <<4, 5>>, <<5, 6>>, <<6, 0>>>>

ClosedShapes == {Square, Triangle, Dart}

OpenShapes ==
    {<<>>,
     <<<<0, 1>>, <<1, 2>>, <<2, 3>>>>,
     <<<<0, 1>>, <<1, 2>>, <<1, 3>>>>,
     <<<<0, 0>>, <<0, 1>>>>,
     <<<<0, 1>>, <<1, 0>>, <<2, 3>>, <<3, 2>>>>,
     <<<<0, 1>>, <<1, 7>>>>}

Orders(s) ==
    {[i \in 1..Len(s) |-> s[f[i]]] :
        f \in {g \in [1..Len(s) -> 1..Len(s)] :
                 \A i, j \in 1..Len(s) : g[i] = g[j] => i = j}}

FirstSides == {<<-1, 0>>, <<0, -1>>, <<1, 0>>, <<2, 0>>, <<0, 2>>, <<-1, -1>>}

RestSides == {<<-1, 0>>, <<1, 0>>}

TagLists == {<<5>>, <<0>>, <<5, 5>>, <<0, 5>>}

MkLinedefs(edges, first, rest) ==
    [i \in 1..Len(edges) |->
        LET sides == IF i = 1 THEN first ELSE rest
        IN Linedef(edges[i][1], edges[i][2], sides[1], sides[2])]

MkSectors(tags) == [i \in 1..Len(tags) |-> Sector(tags[i], 0, 0)]

TwoSidedefs == <<[sector |-> 0], [sector |-> 1]>>

Grid == {Point(x, y) : x \in 0..MaxCoord, y \in 0..MaxCoord}

WalkLevels ==
    {LevelOf(<<Point(1, 1)>>, MkLinedefs(p, first, rest), TwoSidedefs,
             VertexPool, MkSectors(tags)) :
        p \in UNION {Orders(s) : s \in ClosedShapes \cup OpenShapes},
        first \in FirstSides, rest \in RestSides, tags \in TagLists}

ThingLevels ==
    {LevelOf(ts, MkLinedefs(s, <<-1, 0>>, <<-1, 0>>), TwoSidedefs,
             VertexPool, MkSectors(<<5>>)) :
        s \in ClosedShapes, ts \in SeqsUpTo(Grid, MaxThings)}

(***************************************************************************)
(* Levels for the adjacency queries: MaxSectors sectors, sidedef i of      *)
(* sector i, and one more sidedef whose sector id dangles; a side id is    *)
(* -1, a sidedef, or the dangling id one past the sidedefs.                *)
(***************************************************************************)
AdjSidedefs == [i \in 1..(MaxSectors + 1) |-> [sector |-> i - 1]]

SideIds == -1..(MaxSectors + 1)

AdjLinedefs ==
    SeqsUpTo({Linedef(0, 1, l, r) : l \in SideIds, r \in SideIds}, MaxAdjLines)

\* Any linedefs, over sectors of distinct heights.
JoinLevels ==
    {LevelOf(<<>>, ls, AdjSidedefs, VertexPool,
             [i \in 1..MaxSectors |-> Sector(0, i - 1, MaxSectors - i)]) :
        ls \in AdjLinedefs}

\* Any heights, over sector 0 joined to each of the other sectors in turn
\* and, last, the last two sectors to each other.
StarLinedefs ==
    [i \in 1..MaxSectors |->
        IF i < MaxSectors THEN Linedef(0, 1, i, 0)
        ELSE Linedef(0, 1, MaxSectors - 2, MaxSectors - 1)]

Heights == 0..MaxHeight

HeightLevels ==
    {LevelOf(<<>>, StarLinedefs, AdjSidedefs, VertexPool,
             [i \in 1..MaxSectors |-> Sector(0, f[i], c[i])]) :
        f \in [1..MaxSectors -> Heights], c \in [1..MaxSectors -> Heights]}

NoIter ==
    [state |-> "none", sector_id |-> 0, pos |-> 0, yielded |-> <<>>,
     heights |-> None]

(***************************************************************************)
(* Containers that hold one level.  THINGS is directory entry `first`,     *)
(* after `first` marker lumps; the eight lumps hold the records of the     *)
(* level, laid out from offset 0 in directory order.  The lumps at the     *)
(* offsets in `bad` all have the same defect: "virtual" (size 0), "short"  *)
(* (one byte short) or "eof" (starts at the end of the file).  The         *)
(* directory is cut to its first n entries.                                *)
(***************************************************************************)
MaxFirst == 2
MaxBad == 2
MaxLevelIndex == 1

LumpNames ==
    [things |-> THINGS, linedefs |-> "LINEDEFS", sidedefs |-> "SIDEDEFS",
     vertices |-> "VERTEXES", segs |-> "SEGS", subsectors |-> "SSECTORS",
     nodes |-> "NODES", sectors |-> "SECTORS"]

Defects == {"virtual", "short", "eof"}

LevelBytes(lv) ==
    FieldsSize(lv, DirectoryOrder, Len(DirectoryOrder))

LevelEntry(lv, l, defect) ==
    [name |-> LumpNames[l.field],
     file_pos |-> IF defect = "eof" THEN LevelBytes(lv)
                  ELSE FieldOffset(lv, l.offset),
     size |-> CASE defect = "virtual" -> 0
                [] defect = "short" -> FieldSize(lv, l.field) - 1
                [] OTHER -> FieldSize(lv, l.field)]

LevelDirectory(lv, first, bad, defect) ==
    [i \in 1..(first + Len(DirectoryOrder)) |->
        IF i <= first THEN [name |-> "E1M1", file_pos |-> 0, size |-> 0]
        ELSE LevelEntry(lv, DirectoryOrder[i - first],
                        IF (i - first) \in bad THEN defect ELSE "none")]

BadSets ==
    {b \in SUBSET (1..Len(DirectoryOrder)) : Cardinality(b) <= MaxBad}

LoadLevels ==
    {LevelOf(<<Point(1, 1)>>, MkLinedefs(Square, s, s), TwoSidedefs,
             VertexPool, MkSectors(<<5>>)) :
        s \in {<<-1, 0>>, <<-1, -1>>, <<2, 0>>}}

LevelContainer(lv, first, bad, defect, n) ==
    [header_ok |-> TRUE, identifier |-> IWAD_HEADER, num_lumps |-> n,
     dir |-> SubSeq(LevelDirectory(lv, first, bad, defect), 1, n),
     len |-> LevelBytes(lv)]

(***************************************************************************)
(* The archive as a state machine.                                         *)
(***************************************************************************)
NoOp == [name |-> "none", arg |-> 0, elem |-> 0, res |-> Ok(0)]

Init ==
    /\ wad \in Containers
    /\ archive = [state |-> "unopened", a |-> NoArchive]
    /\ cursor = 0
    /\ op = NoOp
    /\ level = NoLevel
    /\ tbs = ThingsStart
    /\ iter = NoIter

Alive == archive.state = "open" /\ op.res.kind # "panic"

Reader(i) == LumpByIndex(archive.a, i).val

\* Where open_wad leaves the shared cursor: the directory follows the lump
\* data in the file, so reading it ends past the data.
DirectoryEnd(w) == w.len

Open ==
    /\ archive.state = "unopened"
    /\ LET r == OpenWad(wad)
       IN /\ archive' = IF r.kind = "ok" THEN [state |-> "open", a |-> r.val]
                        ELSE IF r.kind = "panic"
                        THEN [state |-> "aborted", a |-> NoArchive]
                        ELSE [state |-> "failed", a |-> NoArchive]
          /\ op' = [name |-> "open", arg |-> 0, elem |-> 0,
                    res |-> IF r.kind = "ok" THEN Ok(0) ELSE r]
    /\ cursor' = DirectoryEnd(wad)
    /\ UNCHANGED <<wad, level, tbs, iter>>

LookupIndex ==
    /\ Alive
    /\ \E i \in 0..MaxLumps :
         op' = [name |-> "lump_by_index", arg |-> i, elem |-> 0,
                res |-> LumpByIndex(archive.a, i)]
    /\ UNCHANGED <<wad, archive, cursor, level, tbs, iter>>

LookupName ==
    /\ Alive
    /\ \E n \in Names \cup {"E1M1"} :
         op' = [name |-> "named_lump", arg |-> n, elem |-> 0,
                res |-> NamedLump(archive.a, n)]
    /\ UNCHANGED <<wad, archive, cursor, level, tbs, iter>>

\* A read through a LumpReader: op keeps, with the call and its result,
\* where the shared cursor was when the call was made.
Decode(name, i, e, o) ==
    /\ op' = [name |-> name, arg |-> i, elem |-> e, res |-> o.res,
              from |-> cursor]
    /\ cursor' = o.cursor
    /\ UNCHANGED <<wad, archive, level, tbs, iter>>

DoDecodeVec ==
    /\ Alive
    /\ \E i \in 0..(Len(archive.a.lumps) - 1), e \in 0..MaxElem :
         Decode("decode_vec", i, e, DecodeVec(Reader(i), e, wad.len))

DoDecodeOne ==
    /\ Alive
    /\ \E i \in 0..(Len(archive.a.lumps) - 1), e \in 0..MaxElem :
         Decode("decode_one", i, e, DecodeOne(Reader(i), e, wad.len))

DoReadBlobs ==
    /\ Alive
    /\ \E i \in 0..(Len(archive.a.lumps) - 1), e \in 0..MaxElem :
         Decode("read_blobs", i, e, ReadBlobs(Reader(i), e, wad.len))

DoReadBytes ==
    /\ Alive
    /\ \E i \in 0..(Len(archive.a.lumps) - 1) :
         Decode("read_bytes", i, 0, ReadBytes(Reader(i), wad.len))

Next ==
    \/ Open
    \/ LookupIndex
    \/ LookupName
    \/ DoDecodeVec
    \/ DoDecodeOne
    \/ DoReadBlobs
    \/ DoReadBytes

Spec == Init /\ [][Next]_vars

(***************************************************************************)
(* SpecThings: compute_things_by_sector on a level, step by step.          *)
(***************************************************************************)
InitThings ==
    /\ level \in WalkLevels \cup ThingLevels
    /\ tbs = ThingsStart
    /\ wad = NoWad
    /\ archive = [state |-> "unopened", a |-> NoArchive]
    /\ cursor = 0
    /\ op = NoOp
    /\ iter = NoIter

ThingsSector ==
    /\ tbs.pc = "sector"
    /\ tbs' \in SectorStep(level, tbs)
    /\ UNCHANGED <<wad, archive, cursor, op, level, iter>>

ThingsWalk ==
    /\ tbs.pc = "walk"
    /\ tbs' = WalkStep(level, tbs)
    /\ UNCHANGED <<wad, archive, cursor, op, level, iter>>

ThingsPolygon ==
    /\ tbs.pc = "polygon"
    /\ tbs' = PolygonStep(level, tbs)
    /\ UNCHANGED <<wad, archive, cursor, op, level, iter>>

NextThings ==
    \/ ThingsSector
    \/ ThingsWalk
    \/ ThingsPolygon

SpecThings == InitThings /\ [][NextThings]_vars

\* compute_things_by_sector is straight-line synchronous code: a walk that
\* has begun takes the next iteration of its loop.
SpecThingsFair == SpecThings /\ WF_vars(ThingsWalk)

(***************************************************************************)
(* SpecAdj: the adjacency iterator of a sector and the fold of             *)
(* neighbour_heights over it.                                              *)
(***************************************************************************)
InitAdj ==
    /\ level \in JoinLevels \cup HeightLevels
    /\ iter = NoIter
    /\ tbs = ThingsStart
    /\ wad = NoWad
    /\ archive = [state |-> "unopened", a |-> NoArchive]
    /\ cursor = 0
    /\ op = NoOp

\* Level::adjacent_sectors(of), of a sector of the level.
AdjacentSectorsCall ==
    /\ iter.state \in {"none", "done"}
    /\ \E of \in 0..(Len(level.sectors) - 1) :
         iter' = [state |-> "open", sector_id |-> of, pos |-> 0,
                  yielded |-> <<>>, heights |-> None]
    /\ UNCHANGED <<wad, archive, cursor, op, level, tbs>>

\* One call of next(), and the fold's closure on what it yields.
IterNextCall ==
    /\ iter.state = "open"
    /\ LET n == IterNext(level, iter.sector_id, iter.pos)
       IN iter' =
            IF n.item = None
            THEN [iter EXCEPT !.state = "done", !.pos = n.pos]
            ELSE [iter EXCEPT
                    !.pos = n.pos,
                    !.yielded = Append(@, n.item[1]),
                    !.heights =
                        FoldHeights(@, At(level.sectors, n.item[1]),
                                    At(level.sectors, iter.sector_id).floor_height)]
    /\ UNCHANGED <<wad, archive, cursor, op, level, tbs>>

NextAdj ==
    \/ AdjacentSectorsCall
    \/ IterNextCall

SpecAdj == InitAdj /\ [][NextAdj]_vars

(***************************************************************************)
(* SpecLoad: open a container that holds one level, then load levels.      *)
(* level holds the records the file encodes.                               *)
(***************************************************************************)
InitLoad ==
    /\ level \in LoadLevels
    /\ \E first \in 0..MaxFirst, bad \in BadSets, defect \in Defects :
         \E n \in 0..(first + Len(DirectoryOrder)) :
            wad = LevelContainer(level, first, bad, defect, n)
    /\ archive = [state |-> "unopened", a |-> NoArchive]
    /\ cursor = 0
    /\ op = NoOp
    /\ tbs = ThingsStart
    /\ iter = NoIter

DoFromArchive ==
    /\ Alive
    /\ \E index \in 0..MaxLevelIndex :
         \E o \in FromArchive(archive.a, level, wad.len, index, cursor) :
            /\ op' = [name |-> "from_archive", arg |-> index, elem |-> 0,
                      res |-> o.res, reads |-> o.reads]
            /\ cursor' = o.cursor
    /\ UNCHANGED <<wad, archive, level, tbs, iter>>

NextLoad ==
    \/ Open
    \/ DoFromArchive

SpecLoad == InitLoad /\ [][NextLoad]_vars

(***************************************************************************)
(* What the claims read off the state.                                     *)
(***************************************************************************)
OpenAttempted == archive.state # "unopened"

\* The header and all num_lumps directory entries can be read.
Readable(w) == w.header_ok /\ Len(w.dir) >= w.num_lumps

\* The directory as it stands on disk: entry i (0-based) of the first
\* num_lumps entries.
DiskEntry(w, i) ==
    [name |-> w.dir[i + 1].name, offset |-> w.dir[i + 1].file_pos,
     size |-> w.dir[i + 1].size]

OpInfo == archive.a.lumps[op.arg + 1]

InsideFile(info) == info.offset + info.size <= wad.len

(***************************************************************************)
(* C1: for every container whose header and num_lumps directory entries    *)
(* can be read, open_wad succeeds if and only if the magic is "IWAD"; with *)
(* any other magic it returns an error and no archive.                     *)
(***************************************************************************)
C1_OpenIffMagic ==
    (OpenAttempted /\ Readable(wad)) =>
        /\ (archive.state = "open") <=> (wad.identifier = IWAD_HEADER)
        /\ wad.identifier # IWAD_HEADER =>
              (archive.state = "failed" /\ op.res.kind = "err")

(***************************************************************************)
(* C2: opening a container whose directory entry 0 is named "THINGS"       *)
(* returns a recoverable error: the process does not abort and no level    *)
(* start is recorded for that entry.                                       *)
(***************************************************************************)
ThingsFirst(w) ==
    /\ Readable(w)
    /\ w.identifier = IWAD_HEADER
    /\ w.num_lumps > 0
    /\ w.dir[1].name = THINGS

C2_ThingsFirstIsError ==
    (OpenAttempted /\ ThingsFirst(wad)) =>
        (archive.state = "failed" /\ op.res.kind = "err")

(***************************************************************************)
(* C3: for a lump whose byte range lies inside the file and a record type  *)
(* of nonzero size, decode_vec succeeds if and only if size > 0 and        *)
(* size mod sizeof = 0, and then returns exactly size div sizeof records;  *)
(* otherwise it returns the size-mismatch error, whose quotient and        *)
(* remainder are size div sizeof and size mod sizeof.                      *)
(***************************************************************************)
C3_DecodeVec ==
    (op.name = "decode_vec" /\ op.elem > 0 /\ InsideFile(OpInfo)) =>
        LET size == OpInfo.size
            fits == size > 0 /\ size % op.elem = 0
        IN /\ (op.res.kind = "ok") <=> fits
           /\ fits => Len(op.res.val) = size \div op.elem
           /\ ~fits =>
                /\ op.res.kind = "err"
                /\ op.res.msg = "Invalid lump size"
                /\ op.res.args[2] = size
                /\ op.res.args[3] = op.elem
                /\ op.res.args[4] = size \div op.elem
                /\ op.res.args[5] = size % op.elem

C3_Witness ==
    /\ op.name = "decode_vec"
    /\ op.elem > 0
    /\ InsideFile(OpInfo)
    /\ op.res.kind = "ok"
    /\ Len(op.res.val) >= 2

(***************************************************************************)
(* C4: decode_one returns a record only when the entry's size equals the   *)
(* record size and the record size is not zero; in every other case,       *)
(* a zero record size and a zero entry size included, it returns the       *)
(* size-mismatch error (total, element, quotient, remainder) and fails in  *)
(* no other way.                                                           *)
(***************************************************************************)
C4_DecodeOne ==
    op.name = "decode_one" =>
        LET exact == op.elem # 0 /\ OpInfo.size = op.elem
        IN /\ op.res.kind = "ok" => exact
           /\ ~exact =>
                /\ op.res.kind = "err"
                /\ op.res.msg = "Invalid lump size"
                /\ Len(op.res.args) = 5

(***************************************************************************)
(* C5: after a successful open, a lookup by name resolves to the highest   *)
(* directory index carrying the name and is absent for a name not in the   *)
(* directory; a lookup by index i returns exactly entry i for i below the  *)
(* count and the missing-lump error otherwise.                             *)
(***************************************************************************)
Carriers(w, n) == {i \in 0..(w.num_lumps - 1) : w.dir[i + 1].name = n}

Highest(S) == CHOOSE i \in S : \A j \in S : j <= i

C5_Lookup ==
    /\ op.name = "named_lump" =>
         IF Carriers(wad, op.arg) = {}
         THEN op.res = Ok(<<"None">>)
         ELSE LET i == Highest(Carriers(wad, op.arg))
              IN op.res = Ok(<<"Some", [index |-> i, info |-> DiskEntry(wad, i)]>>)
    /\ op.name = "lump_by_index" =>
         IF op.arg < wad.num_lumps
         THEN op.res = Ok([index |-> op.arg, info |-> DiskEntry(wad, op.arg)])
         ELSE /\ op.res.kind = "err"
              /\ op.res.msg = "Missing required lump"

C5_Witness ==
    /\ op.name = "named_lump"
    /\ Cardinality(Carriers(wad, op.arg)) >= 2
    /\ op.res.kind = "ok"
    /\ op.res.val[2].index = 1

(***************************************************************************)
(* The boundary of a sector, read off the level: the linedefs that refer   *)
(* to the sector, as undirected edges between vertex ids.  It is one       *)
(* closed boundary when it is a single cycle: at least three edges, none a *)
(* loop, no two joining the same vertices, every vertex on exactly two     *)
(* edges, all edges connected, and every vertex id a vertex of the level.  *)
(***************************************************************************)
Ends(l) == {l.start_vertex, l.end_vertex}

BoundaryVertices(ls) == UNION {Ends(ls[i]) : i \in 1..Len(ls)}

RECURSIVE Reach(_, _)
Reach(ls, vs) ==
    LET more == vs \cup UNION {Ends(ls[i]) :
                    i \in {j \in 1..Len(ls) : Ends(ls[j]) \cap vs # {}}}
    IN IF more = vs THEN vs ELSE Reach(ls, more)

ClosedBoundary(lv, sector_index) ==
    /\ ~FilterPanics(lv, sector_index)
    /\ LET ls == SectorLinedefs(lv, sector_index)
       IN /\ Len(ls) >= 3
          /\ \A i \in 1..Len(ls) : Cardinality(Ends(ls[i])) = 2
          /\ \A i, j \in 1..Len(ls) : Ends(ls[i]) = Ends(ls[j]) => i = j
          /\ \A v \in BoundaryVertices(ls) :
                /\ InRange(lv.vertices, v)
                /\ Cardinality({i \in 1..Len(ls) : v \in Ends(ls[i])}) = 2
          /\ Reach(ls, Ends(ls[1])) = BoundaryVertices(ls)

\* A point is strictly inside a closed boundary when it lies on none of its
\* edges and a ray from it crosses an odd number of them.
Crosses(a, b, p) ==
    \/ a.y <= p.y /\ p.y < b.y /\ Orient2d(a, b, p) > 0
    \/ b.y <= p.y /\ p.y < a.y /\ Orient2d(a, b, p) < 0

StrictlyInside(lv, ls, p) ==
    /\ \A i \in 1..Len(ls) :
          ~OnLine(Coord(lv, ls[i].start_vertex), Coord(lv, ls[i].end_vertex), p)
    /\ Cardinality({i \in 1..Len(ls) :
          Crosses(Coord(lv, ls[i].start_vertex),
                  Coord(lv, ls[i].end_vertex), p)}) % 2 = 1

ThingsInside(lv, sector_index) ==
    SelectSeq([i \in 1..Len(lv.things) |-> i - 1],
              LAMBDA i : StrictlyInside(lv, SectorLinedefs(lv, sector_index),
                                        At(lv.things, i)))

(***************************************************************************)
(* C8: once compute_things_by_sector is past a sector, the sector has an   *)
(* entry in things_by_sector if and only if its tag is not zero, and when  *)
(* its linedefs form one closed boundary the entry is exactly the          *)
(* ascending list of the indices of the things strictly inside the         *)
(* boundary.                                                               *)
(***************************************************************************)
C8_ThingsBySector ==
    tbs.pc \in {"sector", "done"} =>
        \A s \in 0..(tbs.sector_index - 1) :
            /\ (s \in DOMAIN tbs.result) <=> (At(level.sectors, s).tag # 0)
            /\ (At(level.sectors, s).tag # 0 /\ ClosedBoundary(level, s)) =>
                  tbs.result[s] = ThingsInside(level, s)

C8_Witness ==
    /\ tbs.pc = "done"
    /\ At(level.sectors, 0).tag # 0
    /\ ClosedBoundary(level, 0)
    /\ Len(level.things) = 2
    /\ tbs.result[0] = <<1>>

(***************************************************************************)
(* C9: adjacency is symmetric: a sector B that the iterator of sector A    *)
(* yields has A among the sectors its own iterator yields.                 *)
(***************************************************************************)
C9_AdjacencySymmetric ==
    iter.state # "none" =>
        \A i \in 1..Len(iter.yielded) :
            \E j \in 1..Len(AdjacentSectors(level, iter.yielded[i], 0)) :
                AdjacentSectors(level, iter.yielded[i], 0)[j] = iter.sector_id

C9_Witness ==
    /\ iter.state = "done"
    /\ \E i \in 1..Len(iter.yielded) : iter.yielded[i] # iter.sector_id

(***************************************************************************)
(* C10: neighbour_heights is absent exactly when the iterator yields no    *)
(* sector; otherwise its floors and ceilings are the least and greatest    *)
(* over the yielded sectors, and next_floor is the least yielded floor     *)
(* strictly above the sector's own floor, absent when there is none.       *)
(***************************************************************************)
Least(S) == CHOOSE x \in S : \A y \in S : x <= y

Greatest(S) == CHOOSE x \in S : \A y \in S : x >= y

YieldedFloors ==
    {At(level.sectors, iter.yielded[i]).floor_height : i \in 1..Len(iter.yielded)}

YieldedCeilings ==
    {At(level.sectors, iter.yielded[i]).ceiling_height : i \in 1..Len(iter.yielded)}

HigherFloors ==
    {f \in YieldedFloors : f > At(level.sectors, iter.sector_id).floor_height}

C10_NeighbourHeights ==
    iter.state = "done" =>
        /\ (iter.heights = None) <=> (iter.yielded = <<>>)
        /\ iter.yielded # <<>> =>
             LET h == iter.heights[1]
             IN /\ h.lowest_floor = Least(YieldedFloors)
                /\ h.highest_floor = Greatest(YieldedFloors)
                /\ h.lowest_ceiling = Least(YieldedCeilings)
                /\ h.highest_ceiling = Greatest(YieldedCeilings)
                /\ h.lowest_floor <= h.highest_floor
                /\ h.next_floor = IF HigherFloors = {} THEN None
                                  ELSE Some(Least(HigherFloors))

C10_Witness ==
    /\ iter.state = "done"
    /\ Len(iter.yielded) >= 2
    /\ iter.heights[1].next_floor # None
    /\ iter.heights[1].next_floor[1] < iter.heights[1].highest_floor
    /\ iter.heights[1].lowest_floor = iter.heights[1].next_floor[1]
    /\ iter.heights[1].lowest_ceiling < iter.heights[1].highest_ceiling

(***************************************************************************)
(* What the claims about from_archive read off the state.  A lump of the   *)
(* level is bad, as it stands on disk, when its directory position is past *)
(* the end of the directory, when its size is zero or no multiple of the   *)
(* record size, or when its bytes do not lie inside the file.              *)
(***************************************************************************)
Loaded == op.name = "from_archive"

NumLevels == Len(archive.a.levels)

StartIndex == At(archive.a.levels, op.arg)

BadLump(w, index, field) ==
    \/ index >= w.num_lumps
    \/ LET e == DiskEntry(w, index)
       IN \/ e.size = 0
          \/ e.size % RecordSize(field) # 0
          \/ e.offset + e.size > w.len

FirstBad(w, start, order) ==
    LET bad == {n \in 1..Len(order) :
                  BadLump(w, start + order[n].offset, order[n].field)}
    IN IF bad = {} THEN 0 ELSE CHOOSE n \in bad : \A m \in bad : n <= m

\* from_archive reads the lumps in this order, each at its offset from the
\* start index, and stops with the error of the first bad lump.
ReadsInOrder(order) ==
    (Loaded /\ op.arg < NumLevels) =>
        LET n == FirstBad(wad, StartIndex, order)
            read == IF n = 0 THEN Len(order) ELSE n
            last == StartIndex + order[read].offset
        IN /\ op.reads =
                SelectSeq([i \in 1..read |-> StartIndex + order[i].offset],
                          LAMBDA index : index < wad.num_lumps)
           /\ n = 0 => op.res.kind # "err"
           /\ n # 0 => (op.res.kind = "err" /\ op.res.args[1] = last)

(***************************************************************************)
(* C6 as claimed: from_archive reads Things, Linedefs, Sidedefs, Vertices, *)
(* Segs, Subsectors, Nodes, Sectors in this order, from the directory      *)
(* positions start + 1 .. start + 8, and returns the error of the first    *)
(* bad lump in this order.                                                 *)
(***************************************************************************)
C6_ReadsInDirectoryOrder ==
    ReadsInOrder(<<Lump("things", 1), Lump("linedefs", 2), Lump("sidedefs", 3),
                   Lump("vertices", 4), Lump("segs", 5), Lump("subsectors", 6),
                   Lump("nodes", 7), Lump("sectors", 8)>>)

(***************************************************************************)
(* C6 amended: from_archive takes Things, Linedefs, Sidedefs, Vertices,    *)
(* Segs, Subsectors, Nodes, Sectors from the directory positions           *)
(* start + 1 .. start + 8 respectively, but reads them in the order        *)
(* Things, Linedefs, Vertices, Segs, Subsectors, Nodes, Sidedefs, Sectors, *)
(* and returns the error of the first bad lump in that order.              *)
(***************************************************************************)
C6_ReadsInCodeOrder ==
    ReadsInOrder(<<Lump("things", 1), Lump("linedefs", 2), Lump("vertices", 4),
                   Lump("segs", 5), Lump("subsectors", 6), Lump("nodes", 7),
                   Lump("sidedefs", 3), Lump("sectors", 8)>>)

\* Sidedefs (+3) and Vertices (+4) are both bad: the error is that of
\* Vertices, which is read first.
C6_Witness ==
    /\ Loaded
    /\ op.arg < NumLevels
    /\ BadLump(wad, StartIndex + 3, "sidedefs")
    /\ BadLump(wad, StartIndex + 4, "vertices")
    /\ op.res.kind = "err"
    /\ op.res.args[1] = StartIndex + 4
    /\ Len(op.reads) = 3

(***************************************************************************)
(* C7: for every archive and level_index, from_archive returns a complete  *)
(* Level or an error value; it returns an error when level_index is not    *)
(* below num_levels, when a directory position start + 1 .. start + 8 is   *)
(* past the end of the directory, and when one of the eight lumps fails to *)
(* decode.                                                                 *)
(***************************************************************************)
C7_LevelOrError ==
    Loaded =>
        /\ op.res.kind \in {"ok", "err"}
        /\ op.arg >= NumLevels => op.res.kind = "err"
        /\ (op.arg < NumLevels
            /\ FirstBad(wad, StartIndex, DirectoryOrder) # 0) =>
               op.res.kind = "err"
        /\ op.res.kind = "ok" =>
               \A n \in 1..Len(DirectoryOrder) :
                  op.res.val.level[DirectoryOrder[n].field]
                    = level[DirectoryOrder[n].field]

(***************************************************************************)
(* What the claims about the adjacency iterator read off the state: the    *)
(* sector of each side of a linedef, where the side's sidedef exists, and  *)
(* what the linedefs scanned so far were to yield.                         *)
(***************************************************************************)
SideResolves(lv, side) == side \in 0..(Len(lv.sidedefs) - 1)

SideSector(lv, side) == lv.sidedefs[side + 1].sector

SectorResolves(lv, id) == id \in 0..(Len(lv.sectors) - 1)

BothResolve(lv, line) ==
    SideResolves(lv, line.left_side) /\ SideResolves(lv, line.right_side)

RECURSIVE Gather(_, _, _)
Gather(yields(_), lines, n) ==
    IF n = 0 THEN <<>>
    ELSE Gather(yields, lines, n - 1) \o yields(lines[n])

\* What a linedef yields when only a linedef with exactly one side in
\* sector q yields.
YieldsIfOneSide(lv, q, line) ==
    IF ~BothResolve(lv, line) THEN <<>>
    ELSE LET l == SideSector(lv, line.left_side)
             r == SideSector(lv, line.right_side)
         IN IF l = q /\ r # q /\ SectorResolves(lv, r) THEN <<r>>
            ELSE IF r = q /\ l # q /\ SectorResolves(lv, l) THEN <<l>>
            ELSE <<>>

\* What a linedef yields when a linedef with both sides in sector q yields
\* q itself.
YieldsIfAnySide(lv, q, line) ==
    IF ~BothResolve(lv, line) THEN <<>>
    ELSE LET l == SideSector(lv, line.left_side)
             r == SideSector(lv, line.right_side)
         IN IF l = q /\ SectorResolves(lv, r) THEN <<r>>
            ELSE IF l # q /\ r = q /\ SectorResolves(lv, l) THEN <<l>>
            ELSE <<>>

Scanned == IF iter.state = "done" THEN Len(level.linedefs) ELSE iter.pos

(***************************************************************************)
(* C11 as claimed: the iterator of sector Q yields, in linedef order, the  *)
(* other side's sector of every linedef whose two sidedefs resolve, of     *)
(* which exactly one is in Q and whose other sector resolves; a linedef    *)
(* with both sides in Q yields nothing, so Q is never yielded; a linedef   *)
(* whose opposite sector does not resolve is skipped and the scan goes on. *)
(***************************************************************************)
C11_YieldsOtherSide ==
    iter.state # "none" =>
        /\ iter.yielded =
             Gather(LAMBDA line : YieldsIfOneSide(level, iter.sector_id, line),
                    level.linedefs, Scanned)
        /\ \A i \in 1..Len(iter.yielded) : iter.yielded[i] # iter.sector_id

(***************************************************************************)
(* C11 amended: the iterator of sector Q yields, in linedef order, for     *)
(* every linedef whose two sidedefs resolve: the right side's sector when  *)
(* the left side is in Q (Q itself when both sides are in Q), else the     *)
(* left side's sector when the right side is in Q; a linedef whose sector  *)
(* to yield does not resolve is skipped and the scan goes on.              *)
(***************************************************************************)
C11_YieldsOppositeOrSelf ==
    iter.state # "none" =>
        iter.yielded =
            Gather(LAMBDA line : YieldsIfAnySide(level, iter.sector_id, line),
                   level.linedefs, Scanned)

\* The first linedef's opposite sector does not resolve and the scan goes
\* on to a second linedef with both sides in Q, which yields Q.
C11_Witness ==
    /\ iter.state = "done"
    /\ Len(level.linedefs) = 2
    /\ BothResolve(level, level.linedefs[1])
    /\ SideSector(level, level.linedefs[1].left_side) = iter.sector_id
    /\ ~SectorResolves(level, SideSector(level, level.linedefs[1].right_side))
    /\ BothResolve(level, level.linedefs[2])
    /\ SideSector(level, level.linedefs[2].left_side) = iter.sector_id
    /\ SideSector(level, level.linedefs[2].right_side) = iter.sector_id
    /\ iter.yielded = <<iter.sector_id>>

(***************************************************************************)
(* What the claims about the boundary walk read off the state.  The walk   *)
(* keeps coordinates; the vertices of the pool have distinct coordinates,  *)
(* so each coordinate names its vertex.                                    *)
(***************************************************************************)
VertexOf(lv, c) == CHOOSE v \in 0..(Len(lv.vertices) - 1) : Coord(lv, v) = c

WalkedVertices == [i \in 1..Len(tbs.sector_vertices) |->
                     VertexOf(level, tbs.sector_vertices[i])]

Joined(ls, u, v) == \E i \in 1..Len(ls) : Ends(ls[i]) = {u, v}

WalkOver == tbs.pc = "polygon"

(***************************************************************************)
(* C12: when the linedefs collected for a tagged sector form one closed    *)
(* cycle over n distinct vertices, the finished walk has exactly n         *)
(* entries, every vertex of the cycle is one of them exactly once, and     *)
(* consecutive entries are joined by a collected linedef, from whichever   *)
(* vertex the walk started.                                                *)
(***************************************************************************)
C12_WalkCoversCycle ==
    (WalkOver /\ ClosedBoundary(level, tbs.sector_index)) =>
        LET ls == SectorLinedefs(level, tbs.sector_index)
            walked == WalkedVertices
        IN /\ Len(walked) = Cardinality(BoundaryVertices(ls))
           /\ Range(walked) = BoundaryVertices(ls)
           /\ \A i, j \in 1..Len(walked) : walked[i] = walked[j] => i = j
           /\ \A i \in 1..(Len(walked) - 1) :
                 Joined(ls, walked[i], walked[i + 1])

\* A walk over a cycle of four vertices that did not start from an end of
\* the first collected linedef.
C12_Witness ==
    /\ WalkOver
    /\ ClosedBoundary(level, tbs.sector_index)
    /\ Len(tbs.sector_vertices) = 4
    /\ WalkedVertices[1]
         \notin Ends(SectorLinedefs(level, tbs.sector_index)[1])

(***************************************************************************)
(* What the claim about the shared cursor reads off the state: the result  *)
(* a read of one directory entry has on a file of len bytes, written out   *)
(* from the entry alone.  k is the width of a record, n the records asked  *)
(* for, m those that lie inside the file.                                  *)
(***************************************************************************)
ReadNames == {"decode_vec", "decode_one", "read_blobs", "read_bytes"}

Refused(name, info, e) ==
    CASE name = "decode_vec" -> info.size = 0 \/ info.size % e # 0
      [] name = "decode_one" -> info.size # e
      [] name = "read_blobs" -> info.size = 0 \/ info.size % e # 0
      [] OTHER -> FALSE

ExpectedRead(name, index, info, e, len) ==
    IF name # "read_bytes" /\ e = 0
    THEN IF name = "read_blobs" THEN Panic("assertion failed: blob_size > 0")
         ELSE Panic("attempt to divide by zero")
    ELSE IF Refused(name, info, e)
    THEN Err("Invalid lump size",
             <<index, info.size, e, info.size \div e, info.size % e>>)
    ELSE LET k == IF name = "read_bytes" THEN info.size ELSE e
             n == IF k = 0 THEN 1 ELSE info.size \div k
             inside == IF len > info.offset THEN len - info.offset ELSE 0
             m == IF k = 0 \/ inside \div k >= n THEN n ELSE inside \div k
             ranges == [j \in 1..m |-> <<info.offset + (j - 1) * k,
                                         info.offset + j * k>>]
         IN IF m < n THEN Err("Invalid element", <<index, m>>)
            ELSE IF name \in {"decode_one", "read_bytes"} THEN Ok(ranges[1])
            ELSE Ok(ranges)

ReturnedRanges ==
    IF op.res.kind # "ok" THEN {}
    ELSE IF op.name \in {"decode_one", "read_bytes"} THEN {op.res.val}
    ELSE Range(op.res.val)

(***************************************************************************)
(* C13: whatever reads came before and wherever they left the shared       *)
(* cursor, a read of lump i through any of the four decoders leaves the    *)
(* cursor between offset_i and offset_i + size_i, returns only bytes of    *)
(* [offset_i, offset_i + size_i), and has the result that the file and     *)
(* entry i alone determine.                                                *)
(***************************************************************************)
C13_ReadConfined ==
    op.name \in ReadNames =>
        /\ OpInfo.offset <= cursor
        /\ cursor <= OpInfo.offset + OpInfo.size
        /\ \A r \in ReturnedRanges :
              /\ OpInfo.offset <= r[1]
              /\ r[1] <= r[2]
              /\ r[2] <= OpInfo.offset + OpInfo.size
        /\ op.res = ExpectedRead(op.name, op.arg, OpInfo, op.elem, wad.len)

\* A read that succeeds although the read before it left the cursor
\* neither at this lump's offset nor at the end of the file.
C13_Witness ==
    /\ op.name \in ReadNames
    /\ op.res.kind = "ok"
    /\ OpInfo.size > 0
    /\ op.from # OpInfo.offset
    /\ op.from < wad.len
    /\ op.from > 0

(***************************************************************************)
(* What the claim about dangling references reads off the state: whether   *)
(* a linedef of the level names a sidedef or a vertex that does not exist. *)
(***************************************************************************)
DanglingSide(lv, side) == side >= 0 /\ side >= Len(lv.sidedefs)

DanglingVertex(lv, v) == v < 0 \/ v >= Len(lv.vertices)

Dangling(lv) ==
    \E i \in 1..Len(lv.linedefs) :
        \/ DanglingSide(lv, lv.linedefs[i].left_side)
        \/ DanglingSide(lv, lv.linedefs[i].right_side)
        \/ DanglingVertex(lv, lv.linedefs[i].start_vertex)
        \/ DanglingVertex(lv, lv.linedefs[i].end_vertex)

(***************************************************************************)
(* C14: a dangling sidedef or vertex reference met while the sector        *)
(* polygons are reconstructed is not fatal: compute_things_by_sector does  *)
(* not crash on an index that is out of range, it goes on to the           *)
(* remaining linedefs and sectors.                                         *)
(***************************************************************************)
C14_DanglingIsNotFatal ==
    Dangling(level) => ~(tbs.pc = "panic" /\ tbs.msg = IndexOutOfBounds)

(***************************************************************************)
(* What the claim about the end of the boundary walk reads off the state:  *)
(* the vertices of the linedefs collected for the sector the walk is on.   *)
(***************************************************************************)
Walking == tbs.pc = "walk"

WalkVertices == BoundaryVertices(SectorLinedefs(level, tbs.sector_index))

Iterations == Cardinality(WalkVertices) - Cardinality(DOMAIN tbs.lines)

\* One iteration of the while loop removes one key of the multi-map or
\* ends the walk.
IterationRemovesOrStops ==
    (Walking /\ tbs' # tbs) =>
        \/ /\ DOMAIN tbs'.lines \subseteq DOMAIN tbs.lines
           /\ Cardinality(DOMAIN tbs'.lines) = Cardinality(DOMAIN tbs.lines) - 1
        \/ tbs'.pc # "walk"

\* The walk appends only vertices it has not visited, and has made no more
\* iterations than there are vertices.
NoVertexTwice ==
    (Walking \/ WalkOver) =>
        /\ \A i, j \in 1..Len(tbs.sector_vertices) :
              tbs.sector_vertices[i] = tbs.sector_vertices[j] => i = j
        /\ Len(tbs.sector_vertices) = Cardinality(tbs.visited)
        /\ DOMAIN tbs.lines \subseteq WalkVertices
        /\ Iterations <= Cardinality(WalkVertices)
        /\ Walking => Len(tbs.sector_vertices) = 1 + Iterations

(***************************************************************************)
(* C15: the boundary walk of a tagged sector ends for every non-empty set  *)
(* of collected linedefs: every iteration removes one key of the vertex    *)
(* multi-map or stops the walk, the walk makes no more iterations than     *)
(* there are distinct vertices, and it never appends a visited vertex.  A  *)
(* walk that meets a vertex id out of range ends in the panic of that      *)
(* index.                                                                  *)
(***************************************************************************)
C15_WalkTerminates ==
    /\ [][IterationRemovesOrStops]_vars
    /\ []NoVertexTwice
    /\ (Walking ~> ~Walking)

\* A walk over several loops or a branching set that stopped with keys
\* left in the multi-map.
C15_Witness ==
    /\ WalkOver
    /\ DOMAIN tbs.lines # {}
    /\ Len(tbs.sector_vertices) >= 2

====
